---- MODULE Spec2Model ----
(***************************************************************************)
(* SDRForge: the terminal dashboard of src/SDRForge.py as a state machine. *)
(*                                                                         *)
(* State: the application's animation fields (_anim_idx, _anim_stage,      *)
(* _anim_running), the text held by the animation panel, the stack of      *)
(* WaveViewerScreen instances pushed above the default (main) screen, each *)
(* with its scenario, paused, _sig and _cursor, and whether the            *)
(* application has exited.                                                 *)
(*                                                                         *)
(* Events: a key press, a tick of the application's 0.04 s interval        *)
(* (_tick_doorbell) and a tick of a wave screen's 0.15 s interval (_tick). *)
(* The host event loop runs one handler to completion at a time, so each   *)
(* handler is one atomic action.                                           *)
(*                                                                         *)
(* Key dispatch: WaveViewerScreen.on_key handles escape, b, space, r, 1,   *)
(* 2, 3 and stops the event; every other key is left unstopped by on_key   *)
(* and reaches SDRForgeApp.BINDINGS (q, d, g), which are declared on the   *)
(* application and not on a screen.  On the main screen only BINDINGS      *)
(* apply.                                                                  *)
(*                                                                         *)
(* A SimSignal is held as its sample rate, its number of samples and its   *)
(* label; the sample values themselves do not influence any transition.    *)
(* Panel updates are modelled as total operations of the toolkit.  A wave   *)
(* screen's interval timer is taken to run for as long as the screen is on *)
(* the stack, also while another wave screen covers it.                    *)
(***************************************************************************)
EXTENDS Integers, Sequences, FiniteSets, TLC

VARIABLES
    anim_idx,       \* SDRForgeApp._anim_idx
    anim_stage,     \* SDRForgeApp._anim_stage
    anim_running,   \* SDRForgeApp._anim_running
    anim_panel,     \* what #anim-panel was last updated with
    screens,        \* WaveViewerScreen instances above the main screen, top last
    exited,         \* the application has called exit()
    last,           \* history: the event handled by the last step
    nticks,         \* history: number of _tick_doorbell calls that advanced
    nflips,         \* history: number of times _anim_stage was flipped
    wticks,         \* history: number of WaveViewerScreen._tick calls
    calc            \* the last call of a pure function: name, arguments, result

vars == <<anim_idx, anim_stage, anim_running, anim_panel, screens, exited,
          last, nticks, nflips, wticks, calc>>

----------------------------------------------------------------------------
(* Bounds of the model *)

MaxScreens == 2
MaxAnimTicks == 61
MaxNavAnimTicks == 2
MaxNavWaveTicks == 2
MaxGenScenario == 4
MaxQuarters == 6
MaxSmallSr == 9
MaxBitsLen == 6
MaxChunk == 4
MaxSparkShort == 4
MaxSparkLen == 25
MaxSparkWidth == 12
MaxNegWidth == 2

----------------------------------------------------------------------------
(* Program constants *)

FRAMES == 30
DEFAULT_SCENARIO == 3
DEFAULT_SR == 48000
DEFAULT_SECONDS_C == 125
TICK_PCT == 3
WINDOW_PCT == 18
DEFAULT_CHUNK == 240
DEFAULT_THRESH_M == 180
MIN_SPARK_WIDTH == 10

Keys == {"q", "d", "g", "escape", "b", "space", "r", "1", "2", "3", "x"}
BackKeys == {"escape", "b"}
ScenarioKeys == {"1", "2", "3"}
WaveKeys == BackKeys \cup ScenarioKeys \cup {"space", "r"}
BINDINGS == {"q", "d", "g"}

int(k) == CASE k = "1" -> 1 [] k = "2" -> 2 [] k = "3" -> 3

----------------------------------------------------------------------------
(* Labels, as sequences of characters *)

Label1 ==
    <<"S","c","e","n","a","r","i","o"," ","1",":"," ",
      "p","u","l","s","e"," ","t","r","a","i","n">>
Label2 ==
    <<"S","c","e","n","a","r","i","o"," ","2",":"," ",
      "F","S","K","-","i","s","h">>
Label3 ==
    <<"S","c","e","n","a","r","i","o"," ","3",":"," ",
      "d","o","o","r","b","e","l","l"," ","b","u","r","s","t">>

Contains(s, sub) ==
    \E i \in 1..(Len(s) - Len(sub) + 1) : SubSeq(s, i, i + Len(sub) - 1) = sub

----------------------------------------------------------------------------
(* Waveform synthesizer *)

\* int(x) of a non-negative quotient num/den
IntOfQuot(num, den) == num \div den

\* round(x) of a non-negative quotient num/den, ties to even as Python's round
RoundOfQuot(num, den) ==
    LET q == num \div den
        r == num % den
    IN  IF 2 * r < den THEN q
        ELSE IF 2 * r > den THEN q + 1
        ELSE IF q % 2 = 0 THEN q ELSE q + 1

gen_label(scenario) ==
    IF scenario = 1 THEN Label1
    ELSE IF scenario = 2 THEN Label2
    ELSE Label3

\* variant: the sample count is rounded instead of truncated
gen_sim_signal_round(scenario, seconds_c, sr) ==
    [sr |-> sr, n |-> RoundOfQuot(seconds_c * sr, 100), label |-> gen_label(scenario)]

\* seconds is given in hundredths (1.25 s = 125)
gen_sim_signal(scenario, seconds_c, sr) ==
    [sr |-> sr, n |-> IntOfQuot(seconds_c * sr, 100), label |-> gen_label(scenario)]

----------------------------------------------------------------------------
(* Waveform visualizer.  A sample is an integer number of thousandths. *)

Min(a, b) == IF a <= b THEN a ELSE b
Max(a, b) == IF a >= b THEN a ELSE b
abs(x) == IF x < 0 THEN -x ELSE x

\* xs[a:b] for a, b >= 0
py_slice(xs, a, b) == SubSeq(xs, Min(a, Len(xs)) + 1, Min(b, Len(xs)))

RECURSIVE sum_abs(_)
sum_abs(xs) == IF xs = <<>> THEN 0 ELSE abs(Head(xs)) + sum_abs(Tail(xs))

\* "1" if avg >= thresh else "0", with avg = sum(abs(x) for x in seg) / len(seg)
bit_of(seg, thresh_m) ==
    IF sum_abs(seg) >= thresh_m * Len(seg) THEN "1" ELSE "0"

\* variant: only whole chunks give a bit
RECURSIVE bits_loop_whole(_, _, _, _)
bits_loop_whole(samples, chunk, thresh_m, i) ==
    IF i + chunk > Len(samples) THEN <<>>
    ELSE <<bit_of(py_slice(samples, i, i + chunk), thresh_m)>>
           \o bits_loop_whole(samples, chunk, thresh_m, i + chunk)

\* the loop of bits_from_samples: for i in range(0, len(samples), chunk)
RECURSIVE bits_loop(_, _, _, _)
bits_loop(samples, chunk, thresh_m, i) ==
    IF i >= Len(samples) THEN <<>>
    ELSE LET seg == py_slice(samples, i, i + chunk)
         IN  IF seg = <<>> THEN <<>>
             ELSE <<bit_of(seg, thresh_m)>>
                    \o bits_loop(samples, chunk, thresh_m, i + chunk)

bits_from_samples(samples, chunk, thresh_m) ==
    IF samples = <<>> THEN <<>> ELSE bits_loop(samples, chunk, thresh_m, 0)

\* the text "(no samples)"
NoSamplesText == <<"(", "n", "o", " ", "s", "a", "m", "p", "l", "e", "s", ")">>

\* blocks: a space and the eight block characters U+2581 .. U+2588
Blocks ==
    <<" ", "U+2581", "U+2582", "U+2583", "U+2584", "U+2585", "U+2586",
      "U+2587", "U+2588">>

\* [samples[i] for i in range(0, len(samples), step)]
every_nth(samples, step) ==
    [k \in 1..((Len(samples) + step - 1) \div step) |-> samples[(k - 1) * step + 1]]

RECURSIVE max_abs(_)
max_abs(xs) == IF xs = <<>> THEN 0 ELSE Max(abs(Head(xs)), max_abs(Tail(xs)))

\* max(0, min(8, int(round((abs(x) / peak) * 8)))), peak = max(1e-9, m): with m = 0
\* every abs(x) is 0 and so is the quotient
spark_level(x, m) ==
    Max(0, Min(8, IF m = 0 THEN 0 ELSE RoundOfQuot(abs(x) * 8, m)))

\* variant: the selected points are not cut to the width
samples_to_sparkline_uncut(samples, width) ==
    IF samples = <<>> THEN NoSamplesText
    ELSE LET w    == Max(MIN_SPARK_WIDTH, width)
             step == Max(1, Len(samples) \div w)
             pts  == every_nth(samples, step)
             peak == max_abs(pts)
         IN  [j \in 1..Len(pts) |-> Blocks[spark_level(pts[j], peak) + 1]]

samples_to_sparkline(samples, width) ==
    IF samples = <<>> THEN NoSamplesText
    ELSE LET w    == Max(MIN_SPARK_WIDTH, width)
             step == Max(1, Len(samples) \div w)
             pts  == py_slice(every_nth(samples, step), 0, w)
             peak == max_abs(pts)
         IN  [j \in 1..Len(pts) |-> Blocks[spark_level(pts[j], peak) + 1]]

----------------------------------------------------------------------------
(* Scene composer.  A text is held as the sequence of its lines, a line as  *)
(* the sequence of its characters; columns are counted from 0 as in the    *)
(* code.  The grave accent of the doorbell art is written "U+0060".        *)

LEFT_PAD == 2
COL_WIDTH == 24
HOUSE_ROOM == 22

DOORBELL_ART ==
    <<
       <<" ", " ", ".", "-", "-", "-", "-", ".">>,
       <<" ", "/", " ", ".", "-", "-", ".", " ", "\\">>,
       <<"|", " ", "|", " ", "(", ")", " ", "|", " ", "|">>,
       <<"|", " ", " ", "U+0060", "-", "-", "'", " ", " ", "|">>,
       <<" ", "\\", " ", " ", " ", " ", " ", " ", "/">>,
       <<" ", " ", "U+0060", "-", "-", "-", "-", "'">>
    >>

LAPTOP_ART ==
    <<
       <<" ", " ", " ", "_", "_", "_", "_", "_", "_", "_", "_", "_", "_", "_", "_", "_">>,
       <<" ", " ", "|", " ", " ", "_", "_", "_", "_", "_", "_", "_", "_", "_", " ", " ", "|">>,
       <<" ", " ", "|", " ", "|", " ", " ", " ", " ", " ", " ", " ", " ", " ", "|", " ", "|">>,
       <<" ", " ", "|", " ", "|", " ", " ", " ", " ", " ", " ", " ", " ", " ", "|", " ", "|">>,
       <<" ", " ", "|", " ", "|", "_", "_", "_", "_", "_", "_", "_", "_", "_", "|", " ", "|">>,
       <<" ", " ", "|", "_", "_", "_", "_", "_", "_", "_", "_", "_", "_", "_", "_", "_", "|">>,
       <<" ", " ", " ", "\\", "_", "_", "_", "_", "_", "_", "_", "_", "_", "_", "_", "/">>
    >>

HOUSE_ART ==
    <<
       <<" ", " ", " ", " ", " ", " ", "/", "\\">>,
       <<" ", " ", " ", " ", " ", "/", " ", " ", "\\">>,
       <<" ", " ", " ", " ", "/", "_", "_", "_", "_", "\\">>,
       <<" ", " ", " ", " ", "|", " ", "_", "_", " ", "|">>,
       <<" ", " ", " ", " ", "|", "|", " ", " ", "|", "|">>,
       <<" ", " ", " ", " ", "|", "|", "_", "_", "|", "|">>,
       <<" ", " ", " ", " ", "|", "_", "_", "_", "_", "|">>
    >>

bell_col == 0 * COL_WIDTH + LEFT_PAD
laptop_col == 1 * COL_WIDTH + LEFT_PAD
house_col == 2 * COL_WIDTH + LEFT_PAD

art_h == Max(Len(DOORBELL_ART), Max(Len(LAPTOP_ART), Len(HOUSE_ART)))
scene_w == house_col + HOUSE_ROOM

\* term_w = max(term_w, scene_w + 4)
scene_term_w(term_w) == Max(term_w, scene_w + 4)

\* pad_left = max(0, (term_w - scene_w) // 2), on the widened term_w
scene_pad_left(term_w) == Max(0, (scene_term_w(term_w) - scene_w) \div 2)

\* variant: the canvas is as wide as the widened terminal
scene_width_full(term_w) == scene_term_w(term_w)

\* width = pad_left + scene_w
scene_width(term_w) == scene_pad_left(term_w) + scene_w

\* [" "] * width
blank_line(width) == [c \in 1..width |-> " "]

\* line[a : a + len(seg)] = seg, for a >= 0
put_seg(line, a, seg) ==
    py_slice(line, 0, a) \o seg \o py_slice(line, a + Len(seg), Len(line))

\* row[x] = ch if 0 <= x < len(row)
put_char(row, x, ch) ==
    IF 0 <= x /\ x < Len(row) THEN [row EXCEPT ![x + 1] = ch] ELSE row

\* for i, ch in enumerate(text): put_char(row, x + i, ch)
RECURSIVE put_text(_, _, _)
put_text(row, x, text) ==
    IF text = <<>> THEN row
    ELSE put_text(put_char(row, x, Head(text)), x + 1, Tail(text))

\* row i of the art part of the canvas
art_line(i, pad_left, width) ==
    LET l0 == blank_line(width)
        l1 == IF i < Len(DOORBELL_ART)
              THEN put_seg(l0, pad_left + bell_col, DOORBELL_ART[i + 1]) ELSE l0
        l2 == IF i < Len(LAPTOP_ART)
              THEN put_seg(l1, pad_left + laptop_col, LAPTOP_ART[i + 1]) ELSE l1
        l3 == IF i < Len(HOUSE_ART)
              THEN put_seg(l2, pad_left + house_col, HOUSE_ART[i + 1]) ELSE l2
    IN  l3

\* for x in range(a, b): if 0 <= x < width: base[x] = "-"
path_line(row, a, b, width) ==
    [c \in 1..Len(row) |->
        IF a <= c - 1 /\ c - 1 < b /\ c - 1 < width THEN "-" ELSE row[c]]

LabelDoorbell == <<"[", "D", "o", "o", "r", "b", "e", "l", "l", "]">>
LabelLaptop == <<"[", "L", "a", "p", "t", "o", "p", "]">>
LabelHouse == <<"[", "H", "o", "u", "s", "e", "]">>
SignalMark == <<")", ")", ")">>

\* variant: the frame index is not clamped to the span
marker_x_unclamped(signal_index, stage, pad_left) ==
    LET start_x == IF stage = 0 THEN pad_left + bell_col + 10
                   ELSE pad_left + laptop_col + 8
    IN  start_x + signal_index

\* the column of the signal marker
marker_x(signal_index, stage, pad_left) ==
    LET start_x == IF stage = 0 THEN pad_left + bell_col + 10
                   ELSE pad_left + laptop_col + 8
        end_x   == IF stage = 0 THEN pad_left + laptop_col - 2
                   ELSE pad_left + house_col - 2
        span    == Max(1, end_x - start_x)
    IN  start_x + Max(0, Min(signal_index, span))

\* the lines of build_scene's text, which joins them with newlines
build_scene(signal_index, stage, term_w) ==
    LET pad_left == scene_pad_left(term_w)
        width    == scene_width(term_w)
        path_y   == art_h + 2
        labels_y == path_y + 2
        sig_y    == path_y - 1
        rows     == Max(art_h, path_y + 4)
        canvas0  == [i \in 1..rows |->
                        IF i <= art_h THEN art_line(i - 1, pad_left, width)
                        ELSE blank_line(width)]
        canvas1  == [canvas0 EXCEPT ![path_y + 1] =
                        path_line(@, pad_left + bell_col + 10,
                                  pad_left + house_col + 8, width)]
        canvas2  == [canvas1 EXCEPT ![labels_y + 1] =
                        put_text(put_text(put_text(@,
                            pad_left + bell_col, LabelDoorbell),
                            pad_left + laptop_col, LabelLaptop),
                            pad_left + house_col, LabelHouse)]
        x        == marker_x(signal_index, stage, pad_left)
        row      == canvas2[sig_y + 1]
        marked   == [c \in 1..Len(row) |->
                        IF x <= c - 1 /\ c - 1 < x + Len(SignalMark) /\ c - 1 < width
                        THEN SignalMark[c - x] ELSE row[c]]
    IN  [canvas2 EXCEPT ![sig_y + 1] = marked]

----------------------------------------------------------------------------
(* Wave viewer session: the fields of one WaveViewerScreen *)

\* variant: the signal is always generated for the default scenario
regenerate_default(s) ==
    [scenario |-> s.scenario,
     paused   |-> s.paused,
     sig      |-> gen_sim_signal(DEFAULT_SCENARIO, DEFAULT_SECONDS_C, DEFAULT_SR),
     cursor   |-> 0]

\* WaveViewerScreen._regenerate
regenerate(s) ==
    [scenario |-> s.scenario,
     paused   |-> s.paused,
     sig      |-> gen_sim_signal(s.scenario, DEFAULT_SECONDS_C, DEFAULT_SR),
     cursor   |-> 0]

\* reactive defaults of the class, then WaveViewerScreen.on_mount
on_mount ==
    regenerate([scenario |-> DEFAULT_SCENARIO, paused |-> FALSE])

\* the cursor step of one tick: int(sr * 0.03)
tick_step(sr) == IntOfQuot(sr * TICK_PCT, 100)

\* variant: the cursor is never reset
tick_session_nowrap(s) ==
    IF ~s.paused
    THEN [s EXCEPT !.cursor = s.cursor + tick_step(s.sig.sr)]
    ELSE s

\* variant: the cursor wraps modulo the number of samples
tick_session_modwrap(s) ==
    IF ~s.paused
    THEN LET c == s.cursor + tick_step(s.sig.sr)
         IN  [s EXCEPT !.cursor = IF c >= s.sig.n THEN c - s.sig.n ELSE c]
    ELSE s

\* variant: the paused flag is not consulted
tick_session_ignores_pause(s) ==
    LET c == s.cursor + tick_step(s.sig.sr)
    IN  [s EXCEPT !.cursor = IF c >= s.sig.n THEN 0 ELSE c]

\* variant: the cursor stays at its last position instead of wrapping
tick_session_sticks(s) ==
    IF ~s.paused
    THEN LET c == s.cursor + tick_step(s.sig.sr)
         IN  [s EXCEPT !.cursor = IF c >= s.sig.n THEN s.cursor ELSE c]
    ELSE s

\* the state change of WaveViewerScreen._tick
tick_session(s) ==
    IF ~s.paused
    THEN LET c == s.cursor + tick_step(s.sig.sr)
         IN  [s EXCEPT !.cursor = IF c >= s.sig.n THEN 0 ELSE c]
    ELSE s

\* len(xs[a:b]) for a list of n elements and a, b >= 0
slice_len(a, b, n) ==
    LET lo == Min(a, n)
        hi == Min(b, n)
    IN  IF hi > lo THEN hi - lo ELSE 0

\* variant: the window's end is not offset by the cursor
render_window_unshifted(s) ==
    LET window == IntOfQuot(s.sig.sr * WINDOW_PCT, 100)
    IN  [start |-> s.cursor, end |-> Min(s.sig.n, window)]

\* the display window of WaveViewerScreen._tick: seg = samples[start:end]
render_window(s) ==
    LET window == IntOfQuot(s.sig.sr * WINDOW_PCT, 100)
        start  == s.cursor
    IN  [start |-> start, end |-> Min(s.sig.n, start + window)]

\* len(seg)
render_seg_len(s) ==
    slice_len(render_window(s).start, render_window(s).end, s.sig.n)

\* variant: space pauses and never resumes
toggle_pause_set(s) == [s EXCEPT !.paused = TRUE]

\* on_key, k == "space"
toggle_pause(s) == [s EXCEPT !.paused = ~s.paused]

\* variant: a scenario switch resumes playback
set_scenario_unpause(s, k) ==
    regenerate([s EXCEPT !.scenario = int(k), !.paused = FALSE])

\* variant: a scenario switch keeps the old signal
set_scenario_noregen(s, k) == [s EXCEPT !.scenario = int(k), !.cursor = 0]

\* on_key, k in ("1", "2", "3")
set_scenario(s, k) == regenerate([s EXCEPT !.scenario = int(k)])

----------------------------------------------------------------------------
(* Animation driver *)

\* variant: the reset comes one frame late
anim_advance_late(idx, stage) ==
    IF idx + 1 > FRAMES
    THEN [idx |-> 0, stage |-> 1 - stage]
    ELSE [idx |-> idx + 1, stage |-> stage]

\* variant: the reset does not flip the stage
anim_advance_noflip(idx, stage) ==
    IF idx + 1 >= FRAMES
    THEN [idx |-> 0, stage |-> stage]
    ELSE [idx |-> idx + 1, stage |-> stage]

\* the advance rule of SDRForgeApp._tick_doorbell
anim_advance(idx, stage) ==
    IF idx + 1 >= FRAMES
    THEN [idx |-> 0, stage |-> 1 - stage]
    ELSE [idx |-> idx + 1, stage |-> stage]

Blank == [kind |-> "blank", idx |-> 0, stage |-> 0]
PausedPlaceholder == [kind |-> "paused", idx |-> 0, stage |-> 0]
Frame(idx, stage) == [kind |-> "frame", idx |-> idx, stage |-> stage]

----------------------------------------------------------------------------
(* Events *)

Ev(op, key, i) == [op |-> op, key |-> key, i |-> i]

Call(fn, args, out) == [fn |-> fn, args |-> args, out |-> out]
NoCall == Call("", <<>>, <<>>)

Depth == Len(screens)
Top == screens[Depth]
OnMain == screens = <<>>
OnWave == screens # <<>>

Init ==
    /\ anim_idx = 0
    /\ anim_stage = 0
    /\ anim_running = TRUE
    /\ anim_panel = Blank
    /\ screens = <<>>
    /\ exited = FALSE
    /\ last = Ev("init", "", 0)
    /\ nticks = 0
    /\ nflips = 0
    /\ wticks = 0
    /\ calc = NoCall

\* WaveViewerScreen.on_key, k in ("escape", "b"): self.app.pop_screen()
KeyBack(k) ==
    /\ ~exited
    /\ OnWave
    /\ k \in BackKeys
    /\ screens' = SubSeq(screens, 1, Depth - 1)
    /\ last' = Ev("key", k, 0)
    /\ UNCHANGED <<anim_idx, anim_stage, anim_running, anim_panel, exited,
                   nticks, nflips, wticks, calc>>

\* WaveViewerScreen.on_key, k == "space"
KeySpace ==
    /\ ~exited
    /\ OnWave
    /\ screens' = [screens EXCEPT ![Depth] = toggle_pause(Top)]
    /\ last' = Ev("key", "space", 0)
    /\ UNCHANGED <<anim_idx, anim_stage, anim_running, anim_panel, exited,
                   nticks, nflips, wticks, calc>>

\* WaveViewerScreen.on_key, k == "r"
KeyR ==
    /\ ~exited
    /\ OnWave
    /\ screens' = [screens EXCEPT ![Depth] = regenerate(Top)]
    /\ last' = Ev("key", "r", 0)
    /\ UNCHANGED <<anim_idx, anim_stage, anim_running, anim_panel, exited,
                   nticks, nflips, wticks, calc>>

\* WaveViewerScreen.on_key, k in ("1", "2", "3")
KeyScenario(k) ==
    /\ ~exited
    /\ OnWave
    /\ k \in ScenarioKeys
    /\ screens' = [screens EXCEPT ![Depth] = set_scenario(Top, k)]
    /\ last' = Ev("key", k, 0)
    /\ UNCHANGED <<anim_idx, anim_stage, anim_running, anim_panel, exited,
                   nticks, nflips, wticks, calc>>

\* binding q: SDRForgeApp.action_quit_app
KeyQ ==
    /\ ~exited
    /\ exited' = TRUE
    /\ last' = Ev("key", "q", 0)
    /\ UNCHANGED <<anim_idx, anim_stage, anim_running, anim_panel, screens,
                   nticks, nflips, wticks, calc>>

\* variant: pausing rewinds the animation
KeyD_rewinds ==
    /\ ~exited
    /\ anim_running' = ~anim_running
    /\ anim_panel' = IF ~anim_running' THEN PausedPlaceholder ELSE anim_panel
    /\ anim_idx' = IF ~anim_running' THEN 0 ELSE anim_idx
    /\ last' = Ev("key", "d", 0)
    /\ UNCHANGED <<anim_stage, screens, exited, nticks, nflips, wticks, calc>>

\* variant: pausing leaves the last frame on the panel
KeyD_keeps_frame ==
    /\ ~exited
    /\ anim_running' = ~anim_running
    /\ anim_panel' = anim_panel
    /\ last' = Ev("key", "d", 0)
    /\ UNCHANGED <<anim_idx, anim_stage, screens, exited, nticks, nflips, wticks, calc>>

\* binding d: SDRForgeApp.action_toggle_doorbell
KeyD ==
    /\ ~exited
    /\ anim_running' = ~anim_running
    /\ anim_panel' = IF ~anim_running' THEN PausedPlaceholder ELSE anim_panel
    /\ last' = Ev("key", "d", 0)
    /\ UNCHANGED <<anim_idx, anim_stage, screens, exited, nticks, nflips, wticks, calc>>

\* binding g: SDRForgeApp.action_open_wave, then the new screen's on_mount
KeyG ==
    /\ ~exited
    /\ Depth < MaxScreens
    /\ screens' = Append(screens, on_mount)
    /\ last' = Ev("key", "g", 0)
    /\ UNCHANGED <<anim_idx, anim_stage, anim_running, anim_panel, exited,
                   nticks, nflips, wticks, calc>>

\* a key neither on_key nor BINDINGS matches
KeyIgnored(k) ==
    /\ ~exited
    /\ k \in Keys
    /\ k \notin BINDINGS
    /\ OnWave => k \notin WaveKeys
    /\ last' = Ev("key", k, 0)
    /\ UNCHANGED <<anim_idx, anim_stage, anim_running, anim_panel, screens,
                   exited, nticks, nflips, wticks, calc>>

\* SDRForgeApp._tick_doorbell
AnimTick ==
    /\ ~exited
    /\ nticks < MaxAnimTicks
    /\ last' = Ev("anim_tick", "", 0)
    /\ IF ~anim_running
       THEN UNCHANGED <<anim_idx, anim_stage, anim_panel, nticks, nflips>>
       ELSE LET a == anim_advance(anim_idx, anim_stage)
            IN  /\ anim_idx' = a.idx
                /\ anim_stage' = a.stage
                /\ anim_panel' = Frame(a.idx, a.stage)
                /\ nticks' = nticks + 1
                /\ nflips' = IF a.stage # anim_stage THEN nflips + 1 ELSE nflips
    /\ UNCHANGED <<anim_running, screens, exited, wticks, calc>>

\* WaveViewerScreen._tick of the i-th wave screen
WaveTick(i) ==
    /\ ~exited
    /\ i \in 1..Depth
    /\ screens' = [screens EXCEPT ![i] = tick_session(screens[i])]
    /\ last' = Ev("wave_tick", "", i)
    /\ UNCHANGED <<anim_idx, anim_stage, anim_running, anim_panel, exited,
                   nticks, nflips, calc>>

----------------------------------------------------------------------------
(* Specifications *)

KeyPress ==
    \/ \E k \in BackKeys : KeyBack(k)
    \/ KeySpace
    \/ KeyR
    \/ \E k \in ScenarioKeys : KeyScenario(k)
    \/ KeyQ
    \/ KeyD
    \/ \E k \in Keys : KeyIgnored(k)

\* a wave tick, counted against the budget of the whole-application model
NavWaveTick ==
    /\ wticks < MaxNavWaveTicks
    /\ \E i \in 1..Depth : WaveTick(i)
    /\ wticks' = wticks + 1

\* an animation tick, counted against the budget of the whole-application model
NavAnimTick == nticks < MaxNavAnimTicks /\ AnimTick

\* The whole application: every key on every screen, both timers.
Next ==
    \/ KeyPress
    \/ KeyG
    \/ NavAnimTick
    \/ NavWaveTick

Spec == Init /\ [][Next]_vars

\* g pressed on the main screen
MainKeyG == OnMain /\ KeyG

SessWaveTick == (\E i \in 1..Depth : WaveTick(i)) /\ UNCHANGED wticks

\* One wave viewer session at a time, opened from the main screen, its timer
\* running without a budget; the animation timer is left out.
NextWave ==
    \/ KeyPress
    \/ MainKeyG
    \/ SessWaveTick

SpecWave == Init /\ [][NextWave]_vars

\* The same, with the interval timer of a mounted wave screen firing again
\* and again (set_interval in on_mount).
SpecWaveFair == SpecWave /\ WF_vars(SessWaveTick)

\* The animation timer running through its whole cycle, with every key; wave
\* viewers are opened from the main screen and their timers are left out.
NextAnim ==
    \/ KeyPress
    \/ MainKeyG
    \/ AnimTick

SpecAnim == Init /\ [][NextAnim]_vars

----------------------------------------------------------------------------
(* Navigation *)

FreshSession ==
    [scenario |-> 3,
     paused   |-> FALSE,
     sig      |-> gen_sim_signal(3, DEFAULT_SECONDS_C, DEFAULT_SR),
     cursor   |-> 0]

\* C1: pressing escape or b on the wave viewer, in any session state, leaves
\* the main screen active, and a wave viewer just entered with g holds a fresh
\* session: cursor 0, scenario 3, not paused.
C1_BackReturnsToMain ==
    /\ (last.op = "key" /\ last.key \in BackKeys) => OnMain
    /\ (last.op = "key" /\ last.key = "g") => (OnWave /\ Top = FreshSession)

----------------------------------------------------------------------------
(* Animation driver *)

\* C2: counting the ticks that ran while running from the initial frame 0,
\* frameIndex is 0 exactly at the multiples of 30 ticks, and at the k-th
\* multiple the stage has flipped exactly k times: each run of 30 ticks from
\* frameIndex 0 flips the stage once and returns frameIndex to 0.
C2_ThirtyTicks ==
    /\ (anim_idx = 0) <=> (nticks % 30 = 0)
    /\ (nticks % 30 = 0) => (nflips = nticks \div 30 /\ anim_stage = nflips % 2)

C2_Witness ==
    /\ last.op = "anim_tick"
    /\ nticks = 30
    /\ anim_idx = 0
    /\ anim_stage = 1

\* C3: frameIndex stays in [0, 30) and stage in {0, 1}; frameIndex or stage
\* change only in a tick taken while running, and such a tick adds 1 to
\* frameIndex or, when that reaches 30, resets it to 0 and flips stage.
C3_AnimStateAndAdvance ==
    /\ [](anim_idx \in 0..29 /\ anim_stage \in {0, 1})
    /\ [][ /\ (anim_idx' # anim_idx \/ anim_stage' # anim_stage)
              => (last' = Ev("anim_tick", "", 0) /\ anim_running)
           /\ (last' = Ev("anim_tick", "", 0) /\ anim_running)
              => IF anim_idx + 1 = 30
                 THEN anim_idx' = 0 /\ anim_stage' = 1 - anim_stage
                 ELSE anim_idx' = anim_idx + 1 /\ anim_stage' = anim_stage
         ]_vars

C3_Witness ==
    /\ last.op = "anim_tick"
    /\ anim_running
    /\ anim_idx = 0
    /\ anim_stage = 0
    /\ nflips = 2

\* C10: key d flips running and leaves frameIndex and stage alone; a tick
\* taken while not running leaves frameIndex, stage and running alone.
C10_ToggleFreezes ==
    [][ /\ last' = Ev("key", "d", 0)
           => /\ anim_running' = ~anim_running
              /\ anim_idx' = anim_idx
              /\ anim_stage' = anim_stage
        /\ (last' = Ev("anim_tick", "", 0) /\ ~anim_running)
           => UNCHANGED <<anim_idx, anim_stage, anim_running>>
      ]_vars

\* resumed with d after a pause, frameIndex still where the pause left it
C10_Witness ==
    /\ last = Ev("key", "d", 0)
    /\ anim_running
    /\ anim_panel = PausedPlaceholder
    /\ anim_idx = 7
    /\ anim_stage = 1

----------------------------------------------------------------------------
(* Wave viewer session *)

\* C4: every wave session has 0 <= cursor < max(1, number of samples).
C4_CursorInRange ==
    \A i \in 1..Depth :
        /\ 0 <= screens[i].cursor
        /\ screens[i].cursor < Max(1, screens[i].sig.n)

\* the last cursor position before the wrap
C4_Witness ==
    /\ OnWave
    /\ last.op = "wave_tick"
    /\ Top.cursor > 0
    /\ Top.cursor + tick_step(Top.sig.sr) >= Top.sig.n

\* C5: a tick of an unpaused session sets cursor to cursor + round(sr * 0.03),
\* which is cursor + 1440 at 48000 Hz, when that is below the number of
\* samples, and to 0 otherwise; nothing else of any session changes.
C5_TickAdvance ==
    [][ \A i \in 1..Depth :
          (last' = Ev("wave_tick", "", i) /\ ~screens[i].paused)
          => LET s == screens[i]
                 c == s.cursor + RoundOfQuot(s.sig.sr * 3, 100)
             IN  /\ screens' = [screens EXCEPT
                                  ![i].cursor = IF c < s.sig.n THEN c ELSE 0]
                 /\ s.sig.sr = 48000 => c = s.cursor + 1440
      ]_vars

\* an unpaused tick has just wrapped the cursor to 0
C5_Witness ==
    /\ OnWave
    /\ last = Ev("wave_tick", "", 1)
    /\ ~Top.paused
    /\ Top.cursor = 0

\* C6: a tick of a paused session changes no session.
C6_PausedTickNoop ==
    [][ \A i \in 1..Depth :
          (last' = Ev("wave_tick", "", i) /\ screens[i].paused)
          => screens' = screens
      ]_vars

C6_Witness ==
    /\ OnWave
    /\ last = Ev("wave_tick", "", 1)
    /\ Top.paused
    /\ Top.cursor > 0

\* C7: key n in 1, 2, 3 on the wave viewer leaves the active session with
\* scenario n, the signal generated for n (for n = 2 its label contains
\* "FSK"), cursor 0 and paused as before; nothing else changes.
C7_SetScenario ==
    [][ \A k \in ScenarioKeys :
          (OnWave /\ last' = Ev("key", k, 0))
          => /\ screens' = [screens EXCEPT
                   ![Depth] = [scenario |-> int(k),
                               paused   |-> Top.paused,
                               sig      |-> gen_sim_signal(int(k), 125, 48000),
                               cursor   |-> 0]]
             /\ k = "2" => Contains(screens'[Depth].sig.label, <<"F", "S", "K">>)
      ]_vars

C7_Witness ==
    /\ OnWave
    /\ last = Ev("key", "2", 0)
    /\ Top.scenario = 2
    /\ Top.paused
    /\ Contains(Top.sig.label, <<"F", "S", "K">>)

\* C8: key r on the wave viewer regenerates the signal for the session's
\* current scenario and sets cursor to 0; scenario and paused are unchanged.
C8_Regenerate ==
    [][ (OnWave /\ last' = Ev("key", "r", 0))
        => screens' = [screens EXCEPT
              ![Depth] = [scenario |-> Top.scenario,
                          paused   |-> Top.paused,
                          sig      |-> gen_sim_signal(Top.scenario, 125, 48000),
                          cursor   |-> 0]]
      ]_vars

C8_Witness ==
    /\ OnWave
    /\ last = Ev("key", "r", 0)
    /\ Top.scenario = 1
    /\ Top.paused
    /\ Top.sig.label = Label1

\* C9: key space flips paused of the active session and changes nothing else
\* of it; toggling any reachable session twice gives the session back.
C9_TogglePause ==
    /\ [](\A i \in 1..Depth : toggle_pause(toggle_pause(screens[i])) = screens[i])
    /\ [][ (OnWave /\ last' = Ev("key", "space", 0))
           => /\ screens' = [screens EXCEPT ![Depth].paused = ~Top.paused]
              /\ screens'[Depth].cursor = Top.cursor
              /\ screens'[Depth].sig = Top.sig
              /\ screens'[Depth].scenario = Top.scenario
         ]_vars

C9_Witness ==
    /\ OnWave
    /\ last = Ev("key", "space", 0)
    /\ ~Top.paused
    /\ Top.cursor > 0
    /\ Top.scenario = 2


----------------------------------------------------------------------------
(* Key routing *)

\* C11: a key outside the active screen's table (1, 2, 3, space, r, b, escape
\* on the wave viewer; q, d, g on the main screen) changes neither the screen
\* stack and its sessions, nor the animation state, nor whether the
\* application runs.
C11_KeysScreenScoped ==
    [][ \A k \in Keys :
          ( /\ last' = Ev("key", k, 0)
            /\ \/ OnWave /\ k \notin WaveKeys
               \/ OnMain /\ k \notin BINDINGS )
          => UNCHANGED <<screens, anim_idx, anim_stage, anim_running, exited>>
      ]_vars


----------------------------------------------------------------------------
(* Animation panel *)

\* C16: whenever the animation is not running, the animation panel holds the
\* "paused" placeholder and not a frame; so no tick taken while paused has
\* replaced it.
C16_PausedPlaceholder ==
    ~anim_running => (anim_panel = PausedPlaceholder /\ anim_panel.kind # "frame")

\* a tick has just been taken while paused, after frames had been shown
C16_Witness ==
    /\ last = Ev("anim_tick", "", 0)
    /\ ~anim_running
    /\ nticks > 0
    /\ anim_panel = PausedPlaceholder


----------------------------------------------------------------------------
(* Signal held by a session, and its display window *)

\* C18: every session on the stack has scenario 1, 2 or 3 and holds the
\* signal generated for that scenario: the label is the scenario's label.
C18_SignalMatchesScenario ==
    \A i \in 1..Depth :
        LET s == screens[i]
        IN  /\ s.scenario \in {1, 2, 3}
            /\ s.scenario = 1 => s.sig.label = Label1
            /\ s.scenario = 2 => s.sig.label = Label2
            /\ s.scenario = 3 => s.sig.label = Label3

\* a tick has run on a session switched to scenario 1
C18_Witness ==
    /\ OnWave
    /\ last = Ev("wave_tick", "", 1)
    /\ Top.scenario = 1
    /\ Top.sig.label = Label1
    /\ Top.cursor > 0

\* C19: for every session the window samples[cursor : min(len, cursor +
\* round(sr * 0.18))] that a tick renders is the one the code takes and is
\* not empty.
C19_WindowNonEmpty ==
    \A i \in 1..Depth :
        LET s == screens[i]
            w == render_window(s)
        IN  /\ w.start = s.cursor
            /\ w.end = Min(s.sig.n, s.cursor + RoundOfQuot(s.sig.sr * 18, 100))
            /\ render_seg_len(s) > 0

\* the last cursor position before the wrap: 960 samples are left to show
C19_Witness ==
    /\ OnWave
    /\ last = Ev("wave_tick", "", 1)
    /\ Top.cursor + tick_step(Top.sig.sr) >= Top.sig.n
    /\ render_seg_len(Top) = 960


----------------------------------------------------------------------------
(* The cursor's cycle *)

\* C20: the cursor of every session is a multiple of 1440; an unpaused tick
\* moves it from position k (cursor = 1440 * k) to position (k + 1) mod 42,
\* so from 0 it is back at 0 after exactly 42 ticks; and with the timer
\* firing, a session that is not paused, left or ended by exit has its cursor
\* at 0 again and again.
C20_CursorCycle ==
    /\ [](\A i \in 1..Depth : screens[i].cursor % 1440 = 0)
    /\ [][ \A i \in 1..Depth :
             (last' = Ev("wave_tick", "", i) /\ ~screens[i].paused)
             => /\ Len(screens') = Depth
                /\ screens'[i].cursor \div 1440
                     = (screens[i].cursor \div 1440 + 1) % 42
         ]_vars
    /\ []<>(exited \/ OnMain \/ Top.paused \/ Top.cursor = 0)

\* a session switched to scenario 2 has gone through a whole cycle
C20_Witness ==
    /\ OnWave
    /\ last = Ev("wave_tick", "", 1)
    /\ ~Top.paused
    /\ Top.scenario = 2
    /\ Top.cursor = 0


----------------------------------------------------------------------------
(* Pure functions, called on inputs drawn from bounded sets *)

\* Durations are multiples of 0.25 s, which binary floating point holds
\* exactly, so that seconds * sr is computed without rounding error.
GenScenarios == 0..MaxGenScenario
GenSeconds == {25 * q : q \in 0..MaxQuarters}
GenSampleRates == (0..MaxSmallSr) \cup {DEFAULT_SR}

CallGen ==
    /\ calc = NoCall
    /\ \E sc \in GenScenarios, c \in GenSeconds, sr \in GenSampleRates :
           calc' = Call("gen_sim_signal", <<sc, c, sr>>, gen_sim_signal(sc, c, sr))
    /\ UNCHANGED <<anim_idx, anim_stage, anim_running, anim_panel, screens,
                   exited, last, nticks, nflips, wticks>>

\* Samples are multiples of 0.25, which binary floating point holds exactly.
SampleValues == {-500, 0, 250}
SeqsUpTo(S, n) == UNION {[1..len -> S] : len \in 0..n}

CallBits ==
    /\ calc = NoCall
    /\ \E samples \in SeqsUpTo(SampleValues, MaxBitsLen), chunk \in 1..MaxChunk :
           calc' = Call("bits_from_samples", <<samples, chunk, DEFAULT_THRESH_M>>,
                        bits_from_samples(samples, chunk, DEFAULT_THRESH_M))
    /\ UNCHANGED <<anim_idx, anim_stage, anim_running, anim_panel, screens,
                   exited, last, nticks, nflips, wticks>>

\* longer sample sequences: silence, a ramp in steps of 0.125, an alternation
SparkPatterns == {"zeros", "ramp", "alt"}
SparkPattern(p, len) ==
    [i \in 1..len |->
        CASE p = "zeros" -> 0
          [] p = "ramp"  -> 125 * (i % 9)
          [] p = "alt"   -> IF i % 2 = 0 THEN -500 ELSE 250]
SparkSamples ==
    SeqsUpTo(SampleValues, MaxSparkShort)
        \cup {SparkPattern(p, len) : p \in SparkPatterns, len \in 0..MaxSparkLen}
SparkWidths == (0 - MaxNegWidth)..MaxSparkWidth

CallSparkline ==
    /\ calc = NoCall
    /\ \E samples \in SparkSamples, width \in SparkWidths :
           calc' = Call("samples_to_sparkline", <<samples, width>>,
                        samples_to_sparkline(samples, width))
    /\ UNCHANGED <<anim_idx, anim_stage, anim_running, anim_panel, screens,
                   exited, last, nticks, nflips, wticks>>

MaxSceneIdx == 29
MaxTermW == 84

\* terminal widths: every eighth column below the scene's width, every
\* column from there on
TermWidths == {w \in 0..MaxTermW : w % 8 = 0 \/ w >= scene_w}

CallScene ==
    /\ calc = NoCall
    /\ \E idx \in 0..MaxSceneIdx, stage \in {0, 1}, w \in TermWidths :
           calc' = Call("build_scene", <<idx, stage, w>>, build_scene(idx, stage, w))
    /\ UNCHANGED <<anim_idx, anim_stage, anim_running, anim_panel, screens,
                   exited, last, nticks, nflips, wticks>>

NextPure ==
    \/ CallGen
    \/ CallBits
    \/ CallSparkline
    \/ CallScene

SpecPure == Init /\ [][NextPure]_vars

----------------------------------------------------------------------------
(* Waveform synthesizer *)

IsGen == calc.fn = "gen_sim_signal"

\* C12: generate(scenario, seconds, sr).samples.length = round(seconds * sr)
\* for every scenario, also outside 1..3, and every duration and sample rate.
C12_LengthIsRound ==
    IsGen => calc.out.n = RoundOfQuot(calc.args[2] * calc.args[3], 100)

\* C12, amended: the length is floor(seconds * sr) for every scenario, also
\* outside 1..3 (which gets scenario 3's label), and every non-negative
\* duration and sample rate.
C12_LengthIsFloor ==
    IsGen =>
        LET sc == calc.args[1]
            p  == calc.args[2] * calc.args[3]
            n  == calc.out.n
        IN  /\ 100 * n <= p
            /\ p < 100 * (n + 1)
            /\ calc.out.sr = calc.args[3]
            /\ sc \notin {1, 2} => calc.out.label = Label3

\* 0.25 s at 7 Hz with a scenario outside 1..3: 1.75 samples give length 1
C12_Witness ==
    /\ IsGen
    /\ calc.args = <<0, 25, 7>>
    /\ calc.out.n = 1
    /\ calc.out.label = Label3


----------------------------------------------------------------------------
(* Waveform visualizer *)

IsBits == calc.fn = "bits_from_samples"

CeilDiv(a, b) == (a + b - 1) \div b

\* C13: derivedBits of no samples is the empty string; of a non-empty
\* sequence with chunk >= 1 it has exactly ceil(length / chunk) characters,
\* each "1" or "0".
C13_BitsLength ==
    IsBits =>
        LET samples == calc.args[1]
            chunk   == calc.args[2]
        IN  /\ samples = <<>> => calc.out = <<>>
            /\ samples # <<>> =>
                 /\ Len(calc.out) = CeilDiv(Len(samples), chunk)
                 /\ \A j \in 1..Len(calc.out) : calc.out[j] \in {"0", "1"}

\* five samples in chunks of two: the single last sample gives the third bit
C13_Witness ==
    /\ IsBits
    /\ calc.args[1] = <<-500, 250, 0, 0, 250>>
    /\ calc.args[2] = 2
    /\ calc.out = <<"1", "0", "1">>


IsSpark == calc.fn = "samples_to_sparkline"

\* C14: sparkline of no samples is the "(no samples)" placeholder for any
\* width; of a non-empty sequence and any integer width, also below 10, zero
\* or negative, it has at most max(10, width) characters.
C14_SparklineLength ==
    IsSpark =>
        LET samples == calc.args[1]
            width   == calc.args[2]
        IN  /\ samples = <<>> => calc.out = NoSamplesText
            /\ samples # <<>> =>
                 Len(calc.out) <= (IF width > 10 THEN width ELSE 10)

\* 25 samples at width -2: every second sample is selected, 13 points, cut to 10
C14_Witness ==
    /\ IsSpark
    /\ calc.args = <<SparkPattern("ramp", 25), -2>>
    /\ Len(calc.out) = 10
    /\ calc.out[2] = "U+2583"


----------------------------------------------------------------------------
(* Scene composer *)

IsScene == calc.fn = "build_scene"

\* the 0-based columns of the signal row (the row above the path) that hold
\* a marker character
MarkerCols(rows) ==
    LET row == rows[art_h + 2]
    IN  {c \in 0..(Len(row) - 1) : row[c + 1] = ")"}

\* the pad the scene is shifted by in a terminal of width w
PadOf(w) == (Max(w, scene_w + 4) - scene_w) \div 2

\* C15: for every terminal width and stage 0 or 1 the three marker
\* characters sit at columns x, x+1, x+2 of the signal row, where x is the
\* stage's start column plus the frame index clamped to [0, span]; x lies
\* within the span, strictly between the columns of the two glyphs of the
\* stage, all three characters lie inside the row, and the next frame
\* index never puts the marker further left.
C15_MarkerColumn ==
    IsScene =>
        LET idx   == calc.args[1]
            stage == calc.args[2]
            w     == calc.args[3]
            pad   == PadOf(w)
            start == pad + (IF stage = 0 THEN bell_col + 10 ELSE laptop_col + 8)
            endx  == pad + (IF stage = 0 THEN laptop_col - 2 ELSE house_col - 2)
            lo    == pad + (IF stage = 0 THEN bell_col ELSE laptop_col)
            hi    == pad + (IF stage = 0 THEN laptop_col ELSE house_col)
            x     == start + Max(0, Min(idx, endx - start))
            next  == MarkerCols(build_scene(idx + 1, stage, w))
        IN  /\ MarkerCols(calc.out) = {x, x + 1, x + 2}
            /\ start <= x /\ x <= endx
            /\ lo < x /\ x < hi
            /\ 0 <= x /\ x + 2 < Len(calc.out[art_h + 2])
            /\ \A c \in next : c >= x

\* the last frame of stage 1 in an 80-column terminal: the index is clamped
\* to the span of 14 and the marker ends two columns before the house
C15_Witness ==
    /\ IsScene
    /\ calc.args = <<29, 1, 80>>
    /\ MarkerCols(calc.out) = {52, 53, 54}

\* C17 as stated: every row of the text has max(terminalWidth, sceneWidth+4)
\* characters.
C17_RowWidthIsTermWidth ==
    IsScene =>
        \A r \in 1..Len(calc.out) :
            Len(calc.out[r]) = Max(calc.args[3], scene_w + 4)

\* C17 amended: every row of the text has padLeft + sceneWidth characters,
\* padLeft being half (rounded down) of what the terminal, widened to at
\* least sceneWidth+4, leaves beside the scene; the scene starts at column
\* padLeft: the widest doorbell row and the doorbell's label have their
\* first character at column padLeft + 2 and only spaces before it.
C17_RowWidthIsPadPlusScene ==
    IsScene =>
        LET pad == PadOf(calc.args[3])
            at  == pad + bell_col
        IN  /\ \A r \in 1..Len(calc.out) : Len(calc.out[r]) = pad + scene_w
            /\ \A r \in {3, art_h + 5} :
                   /\ calc.out[r][at + 1] \in {"|", "["}
                   /\ \A c \in 1..at : calc.out[r][c] = " "

\* an 80-column terminal: the pad is 4, the rows have 76 characters
C17_Witness ==
    /\ IsScene
    /\ calc.args = <<0, 0, 80>>
    /\ Len(calc.out) = 13
    /\ Len(calc.out[1]) = 76
    /\ calc.out[3][7] = "|"

====
